---- MODULE Spec2Model ----
(***************************************************************************)
(* Model of src/v0/src/app/spotify/generate_aruco.py: the command-line     *)
(* ArUco marker generator.  One process run is: argparse of three          *)
(* positional arguments, then generate_aruco_marker(name, id, size):       *)
(* name validation against ARUCO_DICT, dictionary load, the 'generating'   *)
(* message, one render call, the file name, one imwrite, the 'saved'       *)
(* message.  The OpenCV calls are modelled by their documented contract:   *)
(* generateImageMarker raises cv2.error for an id outside the dictionary   *)
(* or a side shorter than markerSize + 2 border bits; imwrite creates no   *)
(* directory and returns False (it does not raise) when it cannot open     *)
(* the file.                                                               *)
(***************************************************************************)
EXTENDS Integers, Sequences, FiniteSets, TLC

VARIABLES
    pc,                     \* position of the process
    argv,                   \* <<dictionary, id token, size token>> of the run
    aruco_dict_name,        \* args.dictionary
    marker_id,              \* args.id
    marker_size,            \* args.size
    this_aruco_dictionary,  \* result of getPredefinedDictionary
    this_marker,            \* result of generateImageMarker
    output_filename,        \* the f-string of line 60
    imagesDir,              \* state of ./images: "missing", "readonly", "writable"
    files,                  \* the files under ./images: path -> image
    files0,                 \* files when the run started
    stdout,                 \* messages printed by the run
    calls,                  \* library calls made by the run, in order
    trace,                  \* steps of generate_aruco_marker taken by the run
    exitCode,               \* process exit status, -1 while running
    runs,                   \* number of runs started
    writes                  \* every successful imwrite so far: [name, id, size, path]

vars == <<pc, argv, aruco_dict_name, marker_id, marker_size,
          this_aruco_dictionary, this_marker, output_filename, imagesDir,
          files, files0, stdout, calls, trace, exitCode, runs, writes>>

\* Number of process runs in a sequence of invocations.
MaxRuns == 2

-----------------------------------------------------------------------------
(* Python values *)

PyNone == [isNone |-> TRUE, val |-> 0]

PyInt(n) == [isNone |-> FALSE, val |-> n]

\* dict.get(key, default)
DictGet(d, key, default) ==
    IF key \in DOMAIN d THEN PyInt(d[key]) ELSE default

\* The table of lines 17-35; the values are OpenCV's PredefinedDictionaryType
\* enumerators: DICT_4X4_50 = 0, ..., DICT_7X7_1000 = 15, DICT_ARUCO_ORIGINAL = 16.
ARUCO_DICT ==
    [k \in {"DICT_4X4_50", "DICT_4X4_100", "DICT_4X4_250", "DICT_4X4_1000",
            "DICT_5X5_50", "DICT_5X5_100", "DICT_5X5_250", "DICT_5X5_1000",
            "DICT_6X6_50", "DICT_6X6_100", "DICT_6X6_250", "DICT_6X6_1000",
            "DICT_7X7_50", "DICT_7X7_100", "DICT_7X7_250", "DICT_7X7_1000",
            "DICT_ARUCO_ORIGINAL"} |->
        CASE k = "DICT_4X4_50" -> 0    [] k = "DICT_4X4_100" -> 1
          [] k = "DICT_4X4_250" -> 2   [] k = "DICT_4X4_1000" -> 3
          [] k = "DICT_5X5_50" -> 4    [] k = "DICT_5X5_100" -> 5
          [] k = "DICT_5X5_250" -> 6   [] k = "DICT_5X5_1000" -> 7
          [] k = "DICT_6X6_50" -> 8    [] k = "DICT_6X6_100" -> 9
          [] k = "DICT_6X6_250" -> 10  [] k = "DICT_6X6_1000" -> 11
          [] k = "DICT_7X7_50" -> 12   [] k = "DICT_7X7_100" -> 13
          [] k = "DICT_7X7_250" -> 14  [] k = "DICT_7X7_1000" -> 15
          [] k = "DICT_ARUCO_ORIGINAL" -> 16]

-----------------------------------------------------------------------------
(* argparse: type=str and type=int *)

Digits == {"0", "1", "2", "3", "4", "5", "6", "7", "8", "9"}

DigitValue(c) ==
    CASE c = "0" -> 0 [] c = "1" -> 1 [] c = "2" -> 2 [] c = "3" -> 3
      [] c = "4" -> 4 [] c = "5" -> 5 [] c = "6" -> 6 [] c = "7" -> 7
      [] c = "8" -> 8 [] c = "9" -> 9

RECURSIVE DecimalValue(_)
DecimalValue(s) ==
    IF s = <<>> THEN 0
    ELSE 10 * DecimalValue(SubSeq(s, 1, Len(s) - 1)) + DigitValue(s[Len(s)])

AllDigits(s) == Len(s) >= 1 /\ \A i \in 1..Len(s) : s[i] \in Digits

\* int(token) succeeds: an optional sign followed by decimal digits (the
\* forms the tokens of IdTokens and SizeTokens take).
IsIntToken(tok) ==
    /\ Len(tok) >= 1
    /\ IF tok[1] \in {"-", "+"} THEN AllDigits(Tail(tok)) ELSE AllDigits(tok)

\* int(token)
IntOfToken(tok) ==
    CASE tok[1] = "-" -> 0 - DecimalValue(Tail(tok))
      [] tok[1] = "+" -> DecimalValue(Tail(tok))
      [] OTHER -> DecimalValue(tok)

\* parser.parse_args() accepts the command line.
ArgsParse(av) == IsIntToken(av[2]) /\ IsIntToken(av[3])

-----------------------------------------------------------------------------
(* OpenCV: cv2.aruco and cv2.imwrite *)

\* Side of the marker grid of a predefined dictionary, in bits.
DictMarkerSize(dictId) == IF dictId = 16 THEN 5 ELSE 4 + (dictId \div 4)

\* Number of markers of a predefined dictionary.
DictCapacity(dictId) ==
    IF dictId = 16 THEN 1024 ELSE <<50, 100, 250, 1000>>[(dictId % 4) + 1]

NoDictionary == [id |-> -1, markerSize |-> 0, nMarkers |-> 0]

getPredefinedDictionary(dictId) ==
    [id |-> dictId, markerSize |-> DictMarkerSize(dictId),
     nMarkers |-> DictCapacity(dictId)]

\* generateImageMarker returns an image instead of raising cv2.error
\* (borderBits defaults to 1).
RendererAccepts(dictionary, id, sidePixels) ==
    /\ id >= 0
    /\ id < dictionary.nMarkers
    /\ sidePixels >= dictionary.markerSize + 2

NoMarker == [dict |-> -1, id |-> 0, sidePixels |-> 0]

\* The image is determined by the dictionary, the id and the side.
generateImageMarker(dictionary, id, sidePixels) ==
    [dict |-> dictionary.id, id |-> id, sidePixels |-> sidePixels]

\* imwrite's return value: it opens the file in an existing, writable
\* directory and creates no directory.
ImwriteOk(dirState) == dirState = "writable"

\* The files after imwrite(path, img).
ImwriteFiles(fs, dirState, path, img) ==
    IF ImwriteOk(dirState)
    THEN [p \in DOMAIN fs \cup {path} |-> IF p = path THEN img ELSE fs[p]]
    ELSE fs

-----------------------------------------------------------------------------
(* generate_aruco_marker *)

NameIsFalsy(name) ==
    LET v == DictGet(ARUCO_DICT, name, PyNone) IN v.isNone \/ v.val = 0

\* line 43: ARUCO_DICT.get(aruco_dict_name, None) is None
NameIsUnsupported(name) == DictGet(ARUCO_DICT, name, PyNone).isNone

AfterValidateNoReturn(name) == "load"

\* lines 43-45: the early return
AfterValidate(name) == IF NameIsUnsupported(name) THEN "returned" ELSE "load"

RenderArgsClamped(dictionary, id, size) ==
    <<dictionary,
      IF id < 0 THEN 0
      ELSE IF id >= dictionary.nMarkers THEN dictionary.nMarkers - 1 ELSE id,
      size>>

\* line 57: the arguments of the render call
RenderArgs(dictionary, id, size) == <<dictionary, id, size>>

AfterRenderSwallowed(accepted) == IF accepted THEN "name" ELSE "returned"

\* line 57: an exception of the renderer is not caught
AfterRender(accepted) == IF accepted THEN "name" ELSE "raised"

OutputFilenameWithoutId(name, id) == "./images/" \o name \o ".png"

OutputFilenameInCwd(name, id) == "./" \o name \o "_id" \o ToString(id) \o ".png"

\* line 60: f"./images/{aruco_dict_name}_id{marker_id}.png"
OutputFilename(name, id) ==
    "./images/" \o name \o "_id" \o ToString(id) \o ".png"

AfterWriteRetry(ok) == IF ok THEN "report" ELSE "render"

\* lines 63-64: the return value of imwrite is not looked at
AfterWrite(ok) == "report"

\* Exit status of the interpreter: 0 after a normal return, 1 after an
\* uncaught exception, 2 after an argparse error.
ExitStatus(outcome) ==
    CASE outcome = "returned" -> 0
      [] outcome = "raised" -> 1
      [] outcome = "usage" -> 2

-----------------------------------------------------------------------------
(* Inputs *)

SupportedNames == DOMAIN ARUCO_DICT

UnsupportedNames ==
    {"DICT_9X9_1", "dict_4x4_50", " DICT_4X4_50", "DICT_4X4_50 ", "DICT_4X4", ""}

\* Names of a single run.
AllNames == SupportedNames \cup UnsupportedNames

\* Names of a sequence of runs.
SomeNames == {"DICT_4X4_50", "DICT_6X6_100", "DICT_9X9_1"}

IdTokens == {<<"0">>, <<"5">>, <<"5", "0">>, <<"-", "1">>, <<"x">>}

SizeTokens == {<<"5">>, <<"1", "0", "0">>, <<"2", "0", "0">>, <<"2", "e", "2">>}

DirStates == {"missing", "readonly", "writable"}

EmptyFiles == [p \in {} |-> NoMarker]

\* A file left by an earlier run of ("DICT_6X6_100", 5, 64).
EarlierFiles ==
    [p \in {OutputFilename("DICT_6X6_100", 5)} |->
        generateImageMarker(getPredefinedDictionary(ARUCO_DICT["DICT_6X6_100"]), 5, 64)]

-----------------------------------------------------------------------------
(* The process *)

Fresh(av) ==
    /\ argv = av
    /\ aruco_dict_name = ""
    /\ marker_id = 0
    /\ marker_size = 0
    /\ this_aruco_dictionary = NoDictionary
    /\ this_marker = NoMarker
    /\ output_filename = ""
    /\ stdout = <<>>
    /\ calls = <<>>
    /\ trace = <<>>
    /\ exitCode = -1

\* A sequence of runs: nothing started, ./images absent or present and empty.
Init ==
    /\ pc = "start"
    /\ Fresh(<<"", <<>>, <<>>>>)
    /\ imagesDir \in DirStates
    /\ files = EmptyFiles
    /\ files0 = EmptyFiles
    /\ runs = 0
    /\ writes = {}

\* A single run on any command line.
InitOnce ==
    /\ pc = "parse"
    /\ \E n \in AllNames, i \in IdTokens, s \in SizeTokens : Fresh(<<n, i, s>>)
    /\ imagesDir \in DirStates
    /\ files \in IF imagesDir = "missing" THEN {EmptyFiles} ELSE {EmptyFiles, EarlierFiles}
    /\ files0 = files
    /\ runs = 1
    /\ writes = {}

\* The shell starts the program.
Start ==
    /\ pc \in {"start", "exited"}
    /\ runs < MaxRuns
    /\ \E n \in SomeNames, i \in IdTokens, s \in SizeTokens :
          /\ argv' = <<n, i, s>>
          /\ aruco_dict_name' = ""
          /\ marker_id' = 0
          /\ marker_size' = 0
    /\ this_aruco_dictionary' = NoDictionary
    /\ this_marker' = NoMarker
    /\ output_filename' = ""
    /\ stdout' = <<>>
    /\ calls' = <<>>
    /\ trace' = <<>>
    /\ exitCode' = -1
    /\ files0' = files
    /\ runs' = runs + 1
    /\ pc' = "parse"
    /\ UNCHANGED <<imagesDir, files, writes>>

\* lines 74-78
Parse ==
    /\ pc = "parse"
    /\ IF ArgsParse(argv)
       THEN /\ aruco_dict_name' = argv[1]
            /\ marker_id' = IntOfToken(argv[2])
            /\ marker_size' = IntOfToken(argv[3])
            /\ pc' = "validate"
       ELSE /\ pc' = "usage"
            /\ UNCHANGED <<aruco_dict_name, marker_id, marker_size>>
    /\ UNCHANGED <<argv, this_aruco_dictionary, this_marker, output_filename,
                   imagesDir, files, files0, stdout, calls, trace, exitCode,
                   runs, writes>>

\* lines 43-45
Validate ==
    /\ pc = "validate"
    /\ trace' = Append(trace, "validate")
    /\ stdout' = IF NameIsUnsupported(aruco_dict_name)
                 THEN Append(stdout, <<"unsupported", aruco_dict_name>>)
                 ELSE stdout
    /\ pc' = AfterValidate(aruco_dict_name)
    /\ UNCHANGED <<argv, aruco_dict_name, marker_id, marker_size,
                   this_aruco_dictionary, this_marker, output_filename,
                   imagesDir, files, files0, calls, exitCode, runs, writes>>

\* line 48; ARUCO_DICT[name] raises KeyError for a name that is no key
Load ==
    /\ pc = "load"
    /\ trace' = Append(trace, "load")
    /\ IF aruco_dict_name \in DOMAIN ARUCO_DICT
       THEN /\ calls' = Append(calls, <<"getPredefinedDictionary",
                                         ARUCO_DICT[aruco_dict_name]>>)
            /\ this_aruco_dictionary' =
                   getPredefinedDictionary(ARUCO_DICT[aruco_dict_name])
            /\ pc' = "announce"
       ELSE /\ pc' = "raised"
            /\ UNCHANGED <<calls, this_aruco_dictionary>>
    /\ UNCHANGED <<argv, aruco_dict_name, marker_id, marker_size, this_marker,
                   output_filename, imagesDir, files, files0, stdout, exitCode,
                   runs, writes>>

\* line 51
Announce ==
    /\ pc = "announce"
    /\ trace' = Append(trace, "generating")
    /\ stdout' = Append(stdout, <<"generating", aruco_dict_name, marker_id>>)
    /\ pc' = "render"
    /\ UNCHANGED <<argv, aruco_dict_name, marker_id, marker_size,
                   this_aruco_dictionary, this_marker, output_filename,
                   imagesDir, files, files0, calls, exitCode, runs, writes>>

\* line 57
Render ==
    /\ pc = "render"
    /\ trace' = Append(trace, "render")
    /\ LET a == RenderArgs(this_aruco_dictionary, marker_id, marker_size)
           accepted == RendererAccepts(a[1], a[2], a[3])
       IN  /\ calls' = Append(calls, <<"generateImageMarker", a[1], a[2], a[3]>>)
           /\ this_marker' = IF accepted
                             THEN generateImageMarker(a[1], a[2], a[3])
                             ELSE this_marker
           /\ pc' = AfterRender(accepted)
    /\ UNCHANGED <<argv, aruco_dict_name, marker_id, marker_size,
                   this_aruco_dictionary, output_filename, imagesDir, files,
                   files0, stdout, exitCode, runs, writes>>

\* line 60
NameFile ==
    /\ pc = "name"
    /\ output_filename' = OutputFilename(aruco_dict_name, marker_id)
    /\ pc' = "write"
    /\ UNCHANGED <<argv, aruco_dict_name, marker_id, marker_size,
                   this_aruco_dictionary, this_marker, imagesDir, files, files0,
                   stdout, calls, trace, exitCode, runs, writes>>

\* line 63
Write ==
    /\ pc = "write"
    /\ trace' = Append(trace, "write")
    /\ calls' = Append(calls, <<"imwrite", output_filename, this_marker,
                                ImwriteOk(imagesDir)>>)
    /\ files' = ImwriteFiles(files, imagesDir, output_filename, this_marker)
    /\ writes' = IF ImwriteOk(imagesDir)
                 THEN writes \cup {[name |-> aruco_dict_name, id |-> marker_id,
                                    size |-> marker_size, path |-> output_filename]}
                 ELSE writes
    /\ pc' = AfterWrite(ImwriteOk(imagesDir))
    /\ UNCHANGED <<argv, aruco_dict_name, marker_id, marker_size,
                   this_aruco_dictionary, this_marker, output_filename,
                   imagesDir, files0, stdout, exitCode, runs>>

\* line 64
Report ==
    /\ pc = "report"
    /\ trace' = Append(trace, "saved")
    /\ stdout' = Append(stdout, <<"saved", output_filename>>)
    /\ pc' = "returned"
    /\ UNCHANGED <<argv, aruco_dict_name, marker_id, marker_size,
                   this_aruco_dictionary, this_marker, output_filename,
                   imagesDir, files, files0, calls, exitCode, runs, writes>>

\* The interpreter ends: line 81 returned, an exception propagated, or
\* argparse called sys.exit.
Exit ==
    /\ pc \in {"returned", "raised", "usage"}
    /\ exitCode' = ExitStatus(pc)
    /\ pc' = "exited"
    /\ UNCHANGED <<argv, aruco_dict_name, marker_id, marker_size,
                   this_aruco_dictionary, this_marker, output_filename,
                   imagesDir, files, files0, stdout, calls, trace, runs, writes>>

Run ==
    \/ Parse
    \/ Validate
    \/ Load
    \/ Announce
    \/ Render
    \/ NameFile
    \/ Write
    \/ Report
    \/ Exit

Next == Start \/ Run

Spec == Init /\ [][Next]_vars

SpecOnce == InitOnce /\ [][Run]_vars

\* The interpreter runs the script to its end: no step waits for anything.
FairSpecOnce == InitOnce /\ [][Run]_vars /\ WF_vars(Run)

-----------------------------------------------------------------------------
(* Vocabulary of the properties *)

\* The 17 supported names: DICT_{4X4,5X5,6X6,7X7}_{50,100,250,1000} and
\* DICT_ARUCO_ORIGINAL.
NamedDictionaries ==
    {"DICT_" \o g \o "_" \o n :
        g \in {"4X4", "5X5", "6X6", "7X7"}, n \in {"50", "100", "250", "1000"}}
    \cup {"DICT_ARUCO_ORIGINAL"}

\* ./images/{name}_id{id}.png
ExpectedPath(name, id) == "./images/" \o name \o "_id" \o ToString(id) \o ".png"

\* The steps of one invocation, in order.
Steps == <<"validate", "load", "generating", "render", "write", "saved">>

IsPrefix(s, t) == Len(s) <= Len(t) /\ \A i \in 1..Len(s) : s[i] = t[i]

CallsOf(fn) == SelectSeq(calls, LAMBDA c : c[1] = fn)

Printed(kind) == \E i \in 1..Len(stdout) : stdout[i][1] = kind

Took(step) == \E i \in 1..Len(trace) : trace[i] = step

\* The name is a key and the renderer accepts the id and the size.
Renderable ==
    /\ aruco_dict_name \in DOMAIN ARUCO_DICT
    /\ RendererAccepts(getPredefinedDictionary(ARUCO_DICT[aruco_dict_name]),
                       marker_id, marker_size)

-----------------------------------------------------------------------------
(* C1 *)

\* C1 as stated: for a supported name and an id and size the renderer
\* accepts, the file ./images/{name}_id{id}.png exists once
\* generate_aruco_marker has returned, whatever the filesystem was before.
C1_FileWhateverFilesystem ==
    (pc = "returned" /\ Renderable)
        => ExpectedPath(aruco_dict_name, marker_id) \in DOMAIN files

-----------------------------------------------------------------------------
(* C2 *)

\* C2: for a name that is no key of the table, generate_aruco_marker returns
\* with no library call made, the files unchanged, and the 'not supported'
\* message as the only message.
C2_UnsupportedNoEffect ==
    (Took("validate") /\ aruco_dict_name \notin DOMAIN ARUCO_DICT)
        => /\ pc \in {"returned", "exited"}
           /\ calls = <<>>
           /\ files = files0
           /\ Len(stdout) = 1
           /\ stdout[1] = <<"unsupported", aruco_dict_name>>
           /\ ~Printed("generating")
           /\ ~Printed("saved")

C2_Witness ==
    /\ pc = "exited"
    /\ aruco_dict_name = "DICT_9X9_1" /\ marker_id = 0 /\ marker_size = 100
    /\ files0 = EarlierFiles
    /\ Printed("unsupported")

-----------------------------------------------------------------------------
(* C3 *)

\* C3 as stated: the exit code is 0 on every run, whatever the name and
\* whatever the integers given as id and size.
C3_ExitAlwaysZero == (pc = "exited" /\ ArgsParse(argv)) => exitCode = 0

\* C3 amended: the exit code is 0 on every run in which argparse accepts the
\* command line and either the name is unsupported or the renderer accepts
\* the id and the size (whether or not the file could be written); it is 1
\* when the renderer raises for the id or the size, and 2 when argparse
\* rejects the id or the size.
C3_ExitCode ==
    pc = "exited" =>
        /\ exitCode = 0 <=>
              /\ ArgsParse(argv)
              /\ aruco_dict_name \notin NamedDictionaries \/ Renderable
        /\ exitCode = 1 <=>
              /\ ArgsParse(argv)
              /\ aruco_dict_name \in NamedDictionaries
              /\ ~Renderable
        /\ exitCode = 2 <=> ~ArgsParse(argv)

C3_Witness ==
    /\ pc = "exited"
    /\ aruco_dict_name = "DICT_4X4_50" /\ marker_id = 50
    /\ exitCode = 1

-----------------------------------------------------------------------------
(* C4 *)

\* C4: a name passes validation if and only if it is exactly one of the 17
\* table keys, DICT_4X4_50 (identifier 0) included.
C4_PassesIffKey ==
    trace = <<"validate">>
        => (pc = "load" <=> aruco_dict_name \in NamedDictionaries)

C4_Witness ==
    /\ trace = <<"validate">>
    /\ aruco_dict_name = "DICT_4X4_50"
    /\ ARUCO_DICT[aruco_dict_name] = 0
    /\ pc = "load"

-----------------------------------------------------------------------------
(* C5 *)

\* C5: the 'saved' message is printed only when imwrite has written the
\* file at the computed path.
C5_SavedOnlyWhenWritten ==
    Printed("saved")
        => /\ \E i \in 1..Len(calls) : calls[i][1] = "imwrite" /\ calls[i][4]
           /\ output_filename \in DOMAIN files
           /\ files[output_filename] = this_marker

-----------------------------------------------------------------------------
(* C6 *)

\* C6: for a supported name the renderer is called once, with the dictionary
\* of that name and with the id and size as received; when the renderer
\* raises, no file is written and no 'saved' message is printed.
C6_ForwardedUnchanged ==
    (Took("render") /\ aruco_dict_name \in DOMAIN ARUCO_DICT)
        => /\ CallsOf("generateImageMarker") =
                 << <<"generateImageMarker",
                      getPredefinedDictionary(ARUCO_DICT[aruco_dict_name]),
                      marker_id, marker_size>> >>
           /\ ~Renderable
                 => /\ pc \in {"raised", "exited"}
                    /\ CallsOf("imwrite") = <<>>
                    /\ files = files0
                    /\ ~Printed("saved")

C6_Witness ==
    /\ pc = "raised"
    /\ aruco_dict_name = "DICT_4X4_50" /\ marker_id = -1 /\ marker_size = 5
    /\ Len(CallsOf("generateImageMarker")) = 1
    /\ files = files0

-----------------------------------------------------------------------------
(* C7 *)

C7_LinearOrder ==
    /\ IsPrefix(trace, Steps)
    /\ Len(CallsOf("getPredefinedDictionary")) = (IF Took("load") THEN 1 ELSE 0)
    /\ Len(CallsOf("generateImageMarker")) = (IF Took("render") THEN 1 ELSE 0)
    /\ Len(CallsOf("imwrite")) = (IF Took("write") THEN 1 ELSE 0)
    /\ Cardinality(DOMAIN files \ DOMAIN files0) <= 1

\* C7: the steps of an invocation occur in the fixed order validation, load,
\* 'generating' message, render, write, 'saved' message, each at most once,
\* and every invocation reaches its end.
C7_LinearAndTerminates == []C7_LinearOrder /\ <>(pc = "exited")

C7_Witness ==
    /\ pc = "exited"
    /\ trace = Steps
    /\ Len(calls) = 3

-----------------------------------------------------------------------------
(* C8 *)

C8_DerivedPaths ==
    \A p \in DOMAIN files :
        \E r \in writes :
            r.name \in NamedDictionaries /\ p = ExpectedPath(r.name, r.id)

C8_OwnPathOnly ==
    files' # files =>
        /\ pc = "write"
        /\ \A p \in DOMAIN files \cup DOMAIN files' :
              p # ExpectedPath(aruco_dict_name, marker_id)
                  => p \in DOMAIN files /\ p \in DOMAIN files' /\ files'[p] = files[p]

\* C8: starting from an empty ./images, every file has a path
\* ./images/{name}_id{id}.png for a supported name and the id of an earlier
\* invocation with that name; an invocation writes only to the path of its
\* own name and id and leaves every other file unchanged.
C8_OnlyDerivedPaths == []C8_DerivedPaths /\ [][C8_OwnPathOnly]_vars

C8_Witness ==
    /\ pc = "exited"
    /\ runs = 2
    /\ DOMAIN files = {"./images/DICT_4X4_50_id0.png",
                       "./images/DICT_6X6_100_id50.png"}

-----------------------------------------------------------------------------
(* C9 *)

\* C9: two successful invocations write to the same path exactly when they
\* have the same name and id, whatever their sizes; after a successful
\* invocation the file at its path holds its marker, and nothing but the
\* two usual messages is printed.
C9_PathOfNameAndId ==
    /\ \A r1 \in writes, r2 \in writes :
          (r1.name = r2.name /\ r1.id = r2.id) <=> r1.path = r2.path
    /\ (pc = "returned" /\ Took("write") /\ imagesDir = "writable")
          => /\ files[output_filename] =
                   generateImageMarker(
                       getPredefinedDictionary(ARUCO_DICT[aruco_dict_name]),
                       marker_id, marker_size)
             /\ stdout = << <<"generating", aruco_dict_name, marker_id>>,
                            <<"saved", output_filename>> >>

C9_Witness ==
    /\ pc = "returned"
    /\ marker_size = 200
    /\ \E r \in writes :
          /\ r.name = aruco_dict_name /\ r.id = marker_id /\ r.size = 100
          /\ r.path = output_filename
    /\ files0[output_filename].sidePixels = 100
    /\ files[output_filename].sidePixels = 200

====
